---- MODULE Spec2Model ----
(***************************************************************************)
(* The 1D Ising chain simulation of ising_sim (sim/_isingsimulation.py),   *)
(* with compute_correlations (_correlations.py) and the display loop _Run  *)
(* (_graphical_simulation.py) that drives it.                              *)
(*                                                                         *)
(* Python dicts are objects: `heap` maps an object identity to the dict's  *)
(* contents, and _state, _initial_state and the entries of _past_states    *)
(* are identities.  dict.copy() allocates a new identity.  Identities are  *)
(* names only; an object nothing refers to any more is dropped from heap.  *)
(*                                                                         *)
(* One call of update(T) with num_updates == 1 (a sweep) is one step.  The *)
(* loops of update(T, n > 1) and of schedule_update make one such call per *)
(* step; `loop` and `sched` hold the locals of those two frames.  A call   *)
(* the caller makes ends in pc = "returned" with its result in `ret`; the  *)
(* caller then drops the result (Continue) and may make the next call.     *)
(* lastSweep, lastUpdate and lastSchedule change nothing in the program:   *)
(* they record what the last sweep, update call and schedule_update call   *)
(* started from, did and returned, and are what the properties read.       *)
(***************************************************************************)
EXTENDS Integers, Sequences, FiniteSets, TLC

\* ---- bounds of the model
MaxLen == 3
MaxPast == 2
MaxPlan == 2
MaxCount == 2
MaxSnap == 3
MaxCoupling == 2

\* ---- program constant: the capacity of _past_states
HistoryCap == 1000

VARIABLES
    args,            \* the constructor's arguments
    pc,              \* "new" | "failed" | "idle" | "loop" | "sched" | "returned",
                     \* and "corr" | "corr_done" around compute_correlations
    _length, _J,     \* self._length, self._J
    _state,          \* self._state: identity of the live dict
    _initial_state,  \* self._initial_state: identity
    _past_states,    \* self._past_states: list of identities
    heap,            \* identity -> dict contents (index -> spin)
    loop,            \* frame of update(T, n) with n > 1
    sched,           \* frame of schedule_update(schedule)
    ret,             \* what the last call made by the caller returned
    lastSweep,       \* record of the last single sweep (observer)
    lastUpdate,      \* record of the last completed update call (observer)
    lastSchedule,    \* record of the last completed schedule_update (observer)
    run              \* the display loop _Run: its fields, what the window shows and
                     \* the number of _update callbacks tkinter holds pending

vars == <<args, pc, _length, _J, _state, _initial_state, _past_states, heap,
          loop, sched, ret, lastSweep, lastUpdate, lastSchedule, run>>

\* ---- inputs
Lengths == 1..MaxLen
Couplings == {-1, 1}
Temps == {0, 1}
Counts == -1..MaxCount
CountArgs == -1..(MaxCount + 1)
SpinInputs == {1, -1, 2}

Range(f) == {f[x] : x \in DOMAIN f}

Indices(length) == 0..(length - 1)

RECURSIVE SeqsUpTo(_, _)
SeqsUpTo(S, n) ==
    IF n = 0 THEN {<<>>}
    ELSE LET shorter == SeqsUpTo(S, n - 1)
         IN shorter \cup {Append(s, x) : s \in {t \in shorter : Len(t) = n - 1}, x \in S}

Plans == SeqsUpTo(Temps \X Counts, MaxPlan)

\* ---- the heap
Restrict(h, ids) == [o \in ids |-> h[o]]

\* an identity no object in use has
NewId(used) == CHOOSE n \in 0..Cardinality(used) : n \notin used

RECURSIVE NewIds(_, _)
NewIds(used, k) ==
    IF k = 0 THEN <<>>
    ELSE LET n == NewId(used) IN <<n>> \o NewIds(used \cup {n}, k - 1)

\* ---- records of the observers
NoRet == [op |-> "none", raised |-> FALSE, error |-> "none", flipped |-> {},
          states |-> <<>>, count |-> 0, pre |-> <<>>, corr |-> <<>>]
NoSweep == [valid |-> FALSE, T |-> 0, start |-> <<>>, end |-> <<>>, flipped |-> {},
            acc |-> {}, rej |-> {}, evicted |-> FALSE, ord |-> 0]
NoUpdate == [valid |-> FALSE, raised |-> FALSE, T |-> 0, n |-> 0, start |-> <<>>,
             end |-> <<>>, flipped |-> {}, rets |-> <<>>]
NoSchedule == [valid |-> FALSE, raised |-> FALSE, plan |-> <<>>, log |-> <<>>, flipped |-> {},
               start |-> <<>>, end |-> <<>>]
NoLoop == [active |-> FALSE, T |-> 0, n |-> 0, remaining |-> 0, flipped |-> {},
           start |-> <<>>, rets |-> <<>>]
NoSched == [active |-> FALSE, plan |-> <<>>, rest |-> <<>>, flipped |-> {}, log |-> <<>>,
            start |-> <<>>]
NoRun == [started |-> FALSE, paused |-> TRUE, pending |-> 0, coarse |-> 0,
          num_past_states |-> 0, updating |-> FALSE, shown |-> <<>>, correlation |-> <<>>]

\* mutant of CtorState: the default configuration is built like z, with the
\* sentinel keys -1 and length
CtorStateWithSentinels(length, given, initial_state) ==
    IF ~given THEN [i \in -1..length |-> IF i \in Indices(length) THEN 1 ELSE 0]
    ELSE [i \in Indices(length) |-> initial_state[i]]

\* ---- __init__
CtorState(length, given, initial_state) ==
    IF ~given THEN [i \in Indices(length) |-> 1]
    ELSE [i \in Indices(length) |-> initial_state[i]]

CtorRaises(length, given, initial_state) ==
    given /\ Range(CtorState(length, given, initial_state)) # {1, -1}

ArgSet ==
    UNION {
        {[length |-> l, J |-> j, given |-> FALSE, initial_state |-> <<>>] : j \in Couplings}
          \cup {[length |-> l, J |-> j, given |-> TRUE, initial_state |-> s] :
                   j \in Couplings, s \in [Indices(l) -> SpinInputs]}
        : l \in Lengths }

Init ==
    /\ args \in ArgSet
    /\ pc = "new"
    /\ _length = 0 /\ _J = 0
    /\ _state = 0 /\ _initial_state = 0
    /\ _past_states = <<>>
    /\ heap = <<>>
    /\ loop = NoLoop /\ sched = NoSched
    /\ ret = NoRet
    /\ lastSweep = NoSweep /\ lastUpdate = NoUpdate /\ lastSchedule = NoSchedule
    /\ run = NoRun

Construct ==
    /\ pc = "new"
    /\ UNCHANGED <<args, loop, sched, lastSweep, lastUpdate, lastSchedule, run>>
    /\ IF CtorRaises(args.length, args.given, args.initial_state)
       THEN /\ pc' = "failed"
            /\ ret' = [NoRet EXCEPT !.op = "__init__", !.raised = TRUE,
                                 !.error = "ValueError"]
            /\ UNCHANGED <<_length, _J, _state, _initial_state, _past_states, heap>>
       ELSE LET cfg == CtorState(args.length, args.given, args.initial_state)
            IN /\ pc' = "returned"
               /\ ret' = [NoRet EXCEPT !.op = "__init__"]
               /\ _length' = args.length /\ _J' = args.J
               /\ _state' = 0 /\ _initial_state' = 1
               /\ heap' = (0 :> cfg) @@ (1 :> cfg)
               /\ _past_states' = <<>>

\* mutant of Z: a ring, the neighbours of the edge spins wrap around
ZRing(length, cfg, k) == cfg[k % length]

\* ---- the local energy of spin i: J * z[i] * (z[i-1] + z[i+1]), z[-1] = z[length] = 0
Z(length, cfg, k) == IF k = -1 \/ k = length THEN 0 ELSE cfg[k]

Subgraph(J, length, i, cfg) ==
    J * Z(length, cfg, i) * (Z(length, cfg, i - 1) + Z(length, cfg, i + 1))

\* ---- dE = E_flip - E: the local energy with spin i flipped, minus the one before
DeltaE(J, length, i, cfg) ==
    LET E == Subgraph(J, length, i, cfg)
        E_flip == Subgraph(J, length, i, [cfg EXCEPT ![i] = @ * (-1)])
    IN E_flip - E

\* mutant of AcceptChoices: the draw is made at temperature 0 too
AcceptChoicesAnyT(dE, T) ==
    IF dE < 0 THEN {TRUE}
    ELSE IF dE = 0 THEN {TRUE}
    ELSE {TRUE, FALSE}

\* mutant of AcceptChoices: dE <= 0 in place of dE < 0
AcceptChoicesLe(dE, T) ==
    IF dE <= 0 THEN {TRUE}
    ELSE IF T = 0 THEN {FALSE}
    ELSE {TRUE, FALSE}

\* ---- dE < 0 or (T and random.random() < exp(-dE / T)): the outcomes the draw allows.
\* random.random() lies in [0, 1): with T > 0 the test is certain for dE = 0
\* (exp(0) = 1) and open for dE > 0 (0 < exp(-dE / T) < 1).
AcceptChoices(dE, T) ==
    IF dE < 0 THEN {TRUE}
    ELSE IF T = 0 THEN {FALSE}
    ELSE IF dE = 0 THEN {TRUE}
    ELSE {TRUE, FALSE}

\* ---- one trial of the sweep's loop on s = [cfg, flipped, acc, rej], for drawn index i
TrialStep(J, length, T, s, i) ==
    LET flip == [s.cfg EXCEPT ![i] = @ * (-1)]
        dE == DeltaE(J, length, i, s.cfg)
    IN { IF a THEN [cfg |-> flip, flipped |-> s.flipped \cup {i},
                    acc |-> s.acc \cup {dE}, rej |-> s.rej]
         ELSE [cfg |-> [flip EXCEPT ![i] = @ * (-1)], flipped |-> s.flipped,
               acc |-> s.acc, rej |-> s.rej \cup {dE}]
         : a \in AcceptChoices(dE, T) }

\* ---- for _ in range(length): every outcome of k more trials from the outcomes in S
RECURSIVE TrialLoop(_, _, _, _, _)
TrialLoop(J, length, T, S, k) ==
    IF k = 0 THEN S
    ELSE TrialLoop(J, length, T,
                   UNION {TrialStep(J, length, T, s, i) : s \in S, i \in Indices(length)},
                   k - 1)

\* mutant of _add_past_state: pop() in place of pop(0)
_add_past_state_pop_last(past, state) ==
    LET appended == Append(past, state)
    IN IF Len(appended) > HistoryCap THEN SubSeq(appended, 1, Len(appended) - 1)
       ELSE appended

\* ---- _add_past_state
_add_past_state(past, state) ==
    LET appended == Append(past, state)
    IN IF Len(appended) > HistoryCap THEN Tail(appended) ELSE appended

\* mutant of StateCopy: return self._state, the dict itself
StateCopyAlias(h, st, used) == [id |-> st, heap |-> h]

\* ---- the state property: self._state.copy(), a new dict
StateCopy(h, st, used) ==
    LET o == NewId(used) IN [id |-> o, heap |-> (o :> h[st]) @@ h]

ObjRefs == {_state, _initial_state} \cup Range(_past_states)

\* ---- what an observer sees of the object: the configuration and the history, by value
View(h, st, past) == [cfg |-> h[st], past |-> [k \in 1..Len(past) |-> h[past[k]]]]

ObjView == View(heap, _state, _past_states)

\* mutant of SweepResults: the snapshot is recorded after the trials of the sweep
SweepResultsRecordAfter(T) ==
    { LET h1 == [heap EXCEPT ![_state] = o.cfg]
          copy == StateCopy(h1, _state, ObjRefs)
          past1 == _add_past_state(_past_states, copy.id)
      IN [heap |-> copy.heap, past |-> past1,
          T |-> T, start |-> heap[_state], end |-> o.cfg, flipped |-> o.flipped,
          before |-> ObjView,
          after |-> View(copy.heap, _state, past1),
          acc |-> o.acc, rej |-> o.rej, evicted |-> Len(past1) = Len(_past_states)]
      : o \in TrialLoop(_J, _length, T,
                        {[cfg |-> heap[_state], flipped |-> {}, acc |-> {}, rej |-> {}]},
                        _length) }

\* ---- update(T) with num_updates == 1: every outcome of one sweep
SweepResults(T) ==
    LET copy == StateCopy(heap, _state, ObjRefs)
        past1 == _add_past_state(_past_states, copy.id)
        start == copy.heap[_state]
    IN { [heap |-> [copy.heap EXCEPT ![_state] = o.cfg], past |-> past1,
          T |-> T, start |-> start, end |-> o.cfg, flipped |-> o.flipped,
          before |-> ObjView,
          after |-> View([copy.heap EXCEPT ![_state] = o.cfg], _state, past1),
          acc |-> o.acc, rej |-> o.rej, evicted |-> Len(past1) = Len(_past_states)]
         : o \in TrialLoop(_J, _length, T,
                           {[cfg |-> start, flipped |-> {}, acc |-> {}, rej |-> {}]},
                           _length) }

ApplySweep(o) ==
    /\ _past_states' = o.past
    /\ heap' = Restrict(o.heap, {_state, _initial_state} \cup Range(o.past))
    /\ lastSweep' = [valid |-> TRUE, T |-> o.T, start |-> o.start, end |-> o.end,
                     flipped |-> o.flipped, acc |-> o.acc, rej |-> o.rej,
                     evicted |-> o.evicted, ord |-> lastSweep.ord + 1]
    /\ UNCHANGED <<args, _length, _J, _state, _initial_state>>

\* no field of the object changes; what an earlier call returned is dropped
ObjUnchanged ==
    /\ heap' = Restrict(heap, ObjRefs)
    /\ UNCHANGED <<args, _length, _J, _state, _initial_state, _past_states>>

\* mutant of Toggle: flipped.add(spin) for every spin of f
ToggleAddOnly(flipped, f) == flipped \cup f

\* mutant of ScheduleToggle: flipped = f
ScheduleToggleLast(flipped, f) == f

\* ---- for spin in f: remove it from flipped if it is there, add it if not
RECURSIVE Toggle(_, _)
Toggle(flipped, f) ==
    IF f = {} THEN flipped
    ELSE LET spin == CHOOSE x \in f : TRUE
         IN Toggle(IF spin \in flipped THEN flipped \ {spin} ELSE flipped \cup {spin},
                   f \ {spin})

RECURSIVE ScheduleToggle(_, _)
ScheduleToggle(flipped, f) ==
    IF f = {} THEN flipped
    ELSE LET spin == CHOOSE x \in f : TRUE
         IN ScheduleToggle(IF spin \in flipped THEN flipped \ {spin}
                           ELSE flipped \cup {spin},
                           f \ {spin})

\* ---- update returns f, to schedule_update's loop or to the caller
ReturnUpdate(T, n, start, end, f, rets) ==
    /\ lastUpdate' = [valid |-> TRUE, raised |-> FALSE, T |-> T, n |-> n, start |-> start,
                      end |-> end, flipped |-> f, rets |-> rets]
    /\ loop' = NoLoop
    /\ UNCHANGED lastSchedule
    /\ IF sched.active
       THEN /\ sched' = [sched EXCEPT !.rest = Tail(@),
                                      !.flipped = ScheduleToggle(@, f),
                                      !.log = Append(@, [T |-> T, n |-> n, start |-> start,
                                                        end |-> end, flipped |-> f])]
            /\ pc' = "sched"
            /\ UNCHANGED ret
       ELSE /\ sched' = NoSched
            /\ pc' = "returned"
            /\ ret' = [NoRet EXCEPT !.op = "update", !.flipped = f, !.count = n]

\* ---- raise ValueError: it leaves update, and schedule_update when that made the call
RaiseUpdate(T, n) ==
    /\ lastUpdate' = [NoUpdate EXCEPT !.valid = TRUE, !.raised = TRUE, !.T = T, !.n = n,
                                      !.start = ObjView, !.end = ObjView]
    /\ lastSchedule' = IF sched.active
                       THEN [valid |-> TRUE, raised |-> TRUE, plan |-> sched.plan,
                             log |-> sched.log, flipped |-> {},
                             start |-> sched.start, end |-> ObjView]
                       ELSE NoSchedule
    /\ ret' = [NoRet EXCEPT !.op = IF sched.active THEN "schedule_update" ELSE "update",
                            !.raised = TRUE, !.error = "ValueError", !.count = n]
    /\ loop' = NoLoop /\ sched' = NoSched
    /\ pc' = "returned"

\* mutant of Update: the count is tested after the snapshot of the first sweep is
\* recorded
UpdateTestsCountLate(T, num_updates) ==
    IF num_updates < 0
    THEN LET copy == StateCopy(heap, _state, ObjRefs)
         IN /\ RaiseUpdate(T, num_updates)
            /\ _past_states' = _add_past_state(_past_states, copy.id)
            /\ heap' = Restrict(copy.heap, {_state, _initial_state}
                                             \cup Range(_add_past_state(_past_states, copy.id)))
            /\ UNCHANGED <<args, _length, _J, _state, _initial_state, lastSweep>>
    ELSE IF num_updates > 1
    THEN /\ loop' = [active |-> TRUE, T |-> T, n |-> num_updates, remaining |-> num_updates,
                     flipped |-> {}, start |-> ObjView, rets |-> <<>>]
         /\ pc' = "loop"
         /\ ObjUnchanged
         /\ UNCHANGED <<sched, ret, lastSweep, lastUpdate, lastSchedule>>
    ELSE IF num_updates = 1
    THEN \E o \in SweepResults(T) :
            /\ ApplySweep(o)
            /\ ReturnUpdate(T, num_updates, o.before, o.after, o.flipped, <<o.flipped>>)
    ELSE /\ ReturnUpdate(T, num_updates, ObjView, ObjView, {}, <<>>)
         /\ ObjUnchanged
         /\ UNCHANGED lastSweep

\* ---- the body of update(T, num_updates), entered from the caller or from schedule_update
Update(T, num_updates) ==
    IF num_updates < 0
    THEN /\ RaiseUpdate(T, num_updates)
         /\ ObjUnchanged
         /\ UNCHANGED lastSweep
    ELSE IF num_updates > 1
    THEN /\ loop' = [active |-> TRUE, T |-> T, n |-> num_updates, remaining |-> num_updates,
                     flipped |-> {}, start |-> ObjView, rets |-> <<>>]
         /\ pc' = "loop"
         /\ ObjUnchanged
         /\ UNCHANGED <<sched, ret, lastSweep, lastUpdate, lastSchedule>>
    ELSE IF num_updates = 1
    THEN \E o \in SweepResults(T) :
            /\ ApplySweep(o)
            /\ ReturnUpdate(T, num_updates, o.before, o.after, o.flipped, <<o.flipped>>)
    ELSE /\ ReturnUpdate(T, num_updates, ObjView, ObjView, {}, <<>>)
         /\ ObjUnchanged
         /\ UNCHANGED lastSweep

\* ---- one pass of `for _ in range(num_updates): f = self.update(T); ...`
LoopStep ==
    /\ pc = "loop"
    /\ loop.remaining > 0
    /\ \E o \in SweepResults(loop.T) :
          /\ ApplySweep(o)
          /\ loop' = [loop EXCEPT !.remaining = @ - 1,
                                  !.flipped = Toggle(@, o.flipped),
                                  !.rets = Append(@, o.flipped)]
    /\ UNCHANGED <<pc, sched, ret, lastUpdate, lastSchedule, run>>

\* ---- the loop is over: return flipped
LoopReturn ==
    /\ pc = "loop"
    /\ loop.remaining = 0
    /\ ReturnUpdate(loop.T, loop.n, loop.start, ObjView, loop.flipped, loop.rets)
    /\ ObjUnchanged
    /\ UNCHANGED <<lastSweep, run>>

\* ---- the caller calls update(T, num_updates)
CallUpdate(T, num_updates) ==
    /\ pc = "idle"
    /\ Update(T, num_updates)

\* mutant of CallSchedule: every count of the schedule is tested before the first
\* update call is made
CallScheduleTestsCountsFirst(schedule) ==
    /\ pc = "idle"
    /\ IF \E k \in 1..Len(schedule) : schedule[k][2] < 0
       THEN /\ ret' = [NoRet EXCEPT !.op = "schedule_update", !.raised = TRUE,
                                    !.error = "ValueError"]
            /\ lastSchedule' = [valid |-> TRUE, raised |-> TRUE, plan |-> schedule,
                                log |-> <<>>, flipped |-> {},
                                start |-> ObjView, end |-> ObjView]
            /\ pc' = "returned"
            /\ UNCHANGED sched
       ELSE /\ sched' = [active |-> TRUE, plan |-> schedule, rest |-> schedule,
                         flipped |-> {}, log |-> <<>>, start |-> ObjView]
            /\ pc' = "sched"
            /\ UNCHANGED <<ret, lastSchedule>>
    /\ ObjUnchanged
    /\ UNCHANGED <<loop, lastSweep, lastUpdate, run>>

\* ---- the caller calls schedule_update(schedule)
CallSchedule(schedule) ==
    /\ pc = "idle"
    /\ sched' = [active |-> TRUE, plan |-> schedule, rest |-> schedule, flipped |-> {},
                 log |-> <<>>, start |-> ObjView]
    /\ pc' = "sched"
    /\ ObjUnchanged
    /\ UNCHANGED <<loop, ret, lastSweep, lastUpdate, lastSchedule, run>>

\* ---- one pass of `for T, n in schedule: f = self.update(T, n); ...`
ScheduleStep ==
    /\ pc = "sched"
    /\ sched.rest # <<>>
    /\ Update(Head(sched.rest)[1], Head(sched.rest)[2])
    /\ UNCHANGED run

\* ---- the schedule is over: return flipped
ScheduleReturn ==
    /\ pc = "sched"
    /\ sched.rest = <<>>
    /\ ret' = [NoRet EXCEPT !.op = "schedule_update", !.flipped = sched.flipped]
    /\ lastSchedule' = [valid |-> TRUE, raised |-> FALSE, plan |-> sched.plan,
                        log |-> sched.log, flipped |-> sched.flipped,
                        start |-> sched.start, end |-> ObjView]
    /\ sched' = NoSched
    /\ pc' = "returned"
    /\ ObjUnchanged
    /\ UNCHANGED <<loop, lastSweep, lastUpdate, run>>

\* mutant of Reset: self._state = self._initial_state, without the copy
ResetNoCopy ==
    /\ pc = "idle"
    /\ _state' = _initial_state
    /\ _past_states' = <<>>
    /\ heap' = Restrict(heap, {_initial_state})
    /\ ret' = [NoRet EXCEPT !.op = "reset", !.pre = ObjView]
    /\ pc' = "returned"
    /\ UNCHANGED <<args, _length, _J, _initial_state, loop, sched,
                   lastSweep, lastUpdate, lastSchedule, run>>

\* ---- reset
Reset ==
    /\ pc = "idle"
    /\ LET copy == StateCopy(heap, _initial_state, {_initial_state})
       IN /\ _state' = copy.id
          /\ _past_states' = <<>>
          /\ heap' = Restrict(copy.heap, {copy.id, _initial_state})
    /\ ret' = [NoRet EXCEPT !.op = "reset", !.pre = ObjView]
    /\ pc' = "returned"
    /\ UNCHANGED <<args, _length, _J, _initial_state, loop, sched,
                   lastSweep, lastUpdate, lastSchedule, run>>

\* ---- a Python slice seq[start:] of a list
PySliceFrom(seq, start) ==
    LET n == Len(seq)
        from == IF start < 0 THEN (IF n + start < 0 THEN 0 ELSE n + start)
                ELSE (IF start > n THEN n ELSE start)
    IN SubSeq(seq, from + 1, n)

\* ---- get_past_states(num_states): copies of a slice of the history, then self.state
GetPastStatesResult(h, st, past, used, num_states) ==
    LET slice == PySliceFrom(past, (-num_states) + 1)
        ids == NewIds(used, Len(slice) + 1)
        from == [k \in 1..Len(ids) |-> IF k <= Len(slice) THEN slice[k] ELSE st]
    IN [states |-> ids,
        heap |-> [o \in Range(ids) |-> h[from[CHOOSE k \in 1..Len(ids) : ids[k] = o]]] @@ h]

get_past_states(num_states) ==
    /\ pc = "idle"
    /\ LET r == GetPastStatesResult(heap, _state, _past_states, ObjRefs, num_states)
       IN /\ ret' = [NoRet EXCEPT !.op = "get_past_states", !.states = r.states,
                                  !.count = num_states]
          /\ heap' = Restrict(r.heap, ObjRefs \cup Range(r.states))
    /\ pc' = "returned"
    /\ UNCHANGED <<args, _length, _J, _state, _initial_state, _past_states, loop, sched,
                   lastSweep, lastUpdate, lastSchedule, run>>

\* ---- the state property, read by the caller
state ==
    /\ pc = "idle"
    /\ LET copy == StateCopy(heap, _state, ObjRefs)
       IN /\ ret' = [NoRet EXCEPT !.op = "state", !.states = <<copy.id>>]
          /\ heap' = Restrict(copy.heap, ObjRefs \cup {copy.id})
    /\ pc' = "returned"
    /\ UNCHANGED <<args, _length, _J, _state, _initial_state, _past_states, loop, sched,
                   lastSweep, lastUpdate, lastSchedule, run>>

\* ---- the caller changes a spin in one of the dicts that state or get_past_states
\* returned: the dicts are the caller's to change
ModifySnapshot ==
    /\ pc = "returned"
    /\ ret.op \in {"state", "get_past_states"}
    /\ \E k \in 1..Len(ret.states), i \in Indices(_length) :
          heap' = [heap EXCEPT ![ret.states[k]][i] = @ * (-1)]
    /\ ret' = [ret EXCEPT !.op = "modified"]
    /\ UNCHANGED <<args, pc, _length, _J, _state, _initial_state, _past_states, loop,
                   sched, lastSweep, lastUpdate, lastSchedule, run>>

\* ---- the caller drops what the call returned and goes on
Continue ==
    /\ pc = "returned"
    /\ pc' = "idle"
    /\ ret' = NoRet
    /\ lastSweep' = NoSweep /\ lastUpdate' = NoUpdate /\ lastSchedule' = NoSchedule
    /\ ObjUnchanged
    /\ UNCHANGED <<loop, sched, run>>

\* ---- the calls the caller makes; the model stops recording at MaxPast snapshots
Sweeps(n) == IF n < 0 THEN 0 ELSE n

RECURSIVE PlanSweeps(_)
PlanSweeps(plan) ==
    IF plan = <<>> THEN 0 ELSE Sweeps(Head(plan)[2]) + PlanSweeps(Tail(plan))

UpdateCall ==
    \E T \in Temps, n \in Counts :
        /\ Len(_past_states) + Sweeps(n) <= MaxPast
        /\ CallUpdate(T, n)
        /\ UNCHANGED run

ScheduleCall ==
    \E plan \in Plans :
        /\ Len(_past_states) + PlanSweeps(plan) <= MaxPast
        /\ CallSchedule(plan)

GetPastStatesCall == \E count \in CountArgs : get_past_states(count)

Next ==
    \/ Construct
    \/ UpdateCall
    \/ LoopStep
    \/ LoopReturn
    \/ ScheduleCall
    \/ ScheduleStep
    \/ ScheduleReturn
    \/ Reset
    \/ GetPastStatesCall
    \/ state
    \/ ModifySnapshot
    \/ Continue

Spec == Init /\ [][Next]_vars

\* ---- a long run: the chain of length 1 at temperature 1, where every trial has
\* dE = 0 and is accepted, run until the history is full and beyond
HistInit ==
    /\ Init
    /\ args = [length |-> 1, J |-> -1, given |-> FALSE, initial_state |-> <<>>]

HistUpdateCall == CallUpdate(1, 1) /\ UNCHANGED run

HistScheduleCall == CallSchedule(<<<<1, 2>>>>)

HistNext ==
    \/ Construct
    \/ HistUpdateCall
    \/ LoopStep
    \/ LoopReturn
    \/ HistScheduleCall
    \/ ScheduleStep
    \/ ScheduleReturn
    \/ Reset
    \/ Continue

SpecHist == HistInit /\ [][HistNext]_vars

\* ---- a cold run: a chain of two spins, built all +1 with either coupling (J = 1:
\* a flip lowers the energy; J = -1: none does), on which update(0, n) is called for
\* ever, with the history filling up to its capacity and turning over
ColdInit ==
    /\ Init
    /\ args.length = 2
    /\ ~args.given

ColdUpdateCall == \E n \in 0..MaxCount : CallUpdate(0, n) /\ UNCHANGED run

ColdNext ==
    \/ Construct
    \/ ColdUpdateCall
    \/ LoopStep
    \/ LoopReturn
    \/ Continue

SpecCold == ColdInit /\ [][ColdNext]_vars

\* ---- compute_correlations(states) (_correlations.py), a function of a list of
\* snapshots the caller holds: ret.states are the dicts of the list, heap their contents

Abs(x) == IF x < 0 THEN -x ELSE x

RECURSIVE Gcd(_, _)
Gcd(a, b) == IF b = 0 THEN a ELSE Gcd(b, a % b)

\* the quotient num / den of two integers, den > 0, in lowest terms
Quotient(num, den) ==
    LET g == Gcd(Abs(num), den) IN [num |-> num \div g, den |-> den \div g]

RECURSIVE SumOver(_, _)
SumOver(f, n) == IF n = 0 THEN 0 ELSE f[n] + SumOver(f, n - 1)

\* mutant of ComputeCorrelations: the sum is divided by len(states[0])
ComputeCorrelationsOverLength(states) ==
    IF states = <<>>
    THEN [raised |-> TRUE, error |-> "IndexError", value |-> <<>>]
    ELSE [raised |-> FALSE, error |-> "none",
          value |-> [i \in Indices(Cardinality(DOMAIN states[1])) |->
                       Quotient(SumOver([k \in 1..Len(states) |->
                                           states[k][0] * states[k][i]], Len(states)),
                                Cardinality(DOMAIN states[1]))]]

\* [sum(s[0] * s[i] for s in states) / len(states) for i in range(len(states[0]))]:
\* states[0] of an empty list raises IndexError
ComputeCorrelations(states) ==
    IF states = <<>>
    THEN [raised |-> TRUE, error |-> "IndexError", value |-> <<>>]
    ELSE [raised |-> FALSE, error |-> "none",
          value |-> [i \in Indices(Cardinality(DOMAIN states[1])) |->
                       Quotient(SumOver([k \in 1..Len(states) |->
                                           states[k][0] * states[k][i]], Len(states)),
                                Len(states))]]

compute_correlations ==
    /\ pc = "corr"
    /\ LET r == ComputeCorrelations([k \in 1..Len(ret.states) |-> heap[ret.states[k]]])
       IN ret' = [ret EXCEPT !.op = "compute_correlations", !.raised = r.raised,
                             !.error = r.error, !.corr = r.value]
    /\ pc' = "corr_done"
    /\ UNCHANGED <<args, _length, _J, _state, _initial_state, _past_states, heap, loop,
                   sched, lastSweep, lastUpdate, lastSchedule, run>>

\* every list of at most MaxSnap snapshots of a chain of at most MaxLen spins
CorrInit ==
    /\ pc = "corr"
    /\ \E l \in Lengths, n \in 0..MaxSnap :
          /\ heap \in [0..(n - 1) -> [Indices(l) -> {1, -1}]]
          /\ ret = [NoRet EXCEPT !.states = [k \in 1..n |-> k - 1]]
    /\ args = [length |-> 0, J |-> 0, given |-> FALSE, initial_state |-> <<>>]
    /\ _length = 0 /\ _J = 0
    /\ _state = 0 /\ _initial_state = 0
    /\ _past_states = <<>>
    /\ loop = NoLoop /\ sched = NoSched
    /\ lastSweep = NoSweep /\ lastUpdate = NoUpdate /\ lastSchedule = NoSchedule
    /\ run = NoRun

CorrNext == compute_correlations

SpecCorr == CorrInit /\ [][CorrNext]_vars

\* ---- the display loop _Run (_graphical_simulation.py).  tkinter runs one callback
\* at a time: a click or a timer is served only between callbacks (pc = "idle").

\* _update_state: what the window shows of the simulation
Shown(num_states) ==
    LET r == GetPastStatesResult(heap, _state, _past_states, ObjRefs, num_states)
    IN [state |-> heap[_state],
        correlation |->
            ComputeCorrelations([k \in 1..Len(r.states) |-> r.heap[r.states[k]]]).value]

\* start_graphical_simulation: IsingSimulation(length, J), then _Run(root, sim, ...)
RunInit ==
    /\ Init
    /\ ~args.given

\* _Run.__init__
RunStart ==
    /\ pc = "returned" /\ ret.op = "__init__"
    /\ ~run.started
    /\ \E coarse \in 1..MaxCount, num_past_states \in 1..MaxPast :
          run' = [started |-> TRUE, paused |-> TRUE, pending |-> 0, coarse |-> coarse,
                  num_past_states |-> num_past_states, updating |-> FALSE,
                  shown |-> Shown(num_past_states).state,
                  correlation |-> Shown(num_past_states).correlation]
    /\ pc' = "idle"
    /\ ret' = NoRet
    /\ ObjUnchanged
    /\ UNCHANGED <<loop, sched, lastSweep, lastUpdate, lastSchedule>>

\* _update, up to the return of self._sim.update(...): paused is the flag it reads,
\* pending the callbacks still held when it runs
_update(paused, pending) ==
    IF paused
    THEN /\ run' = [run EXCEPT !.paused = paused, !.pending = pending]
         /\ ObjUnchanged
         /\ UNCHANGED <<pc, loop, sched, ret, lastSweep, lastUpdate, lastSchedule>>
    ELSE \E T \in Temps :
            /\ Len(_past_states) + run.coarse <= MaxPast
            /\ run' = [run EXCEPT !.paused = paused, !.pending = pending,
                                  !.updating = TRUE]
            /\ Update(T, run.coarse)

\* a click on the Play / Pause button
_pause_play ==
    /\ pc = "idle" /\ run.started
    /\ IF run.paused
       THEN _update(FALSE, run.pending)
       ELSE /\ run' = [run EXCEPT !.paused = TRUE]
            /\ ObjUnchanged
            /\ UNCHANGED <<pc, loop, sched, ret, lastSweep, lastUpdate, lastSchedule>>

\* a callback registered with after(50, self._update) comes due
TimerFires ==
    /\ pc = "idle" /\ run.started
    /\ run.pending > 0
    /\ _update(run.paused, run.pending - 1)

\* the rest of _update once self._sim.update has returned:
\* self._update_state(); self._root.after(50, self._update)
UpdateDone ==
    /\ pc = "returned" /\ run.updating
    /\ run' = [run EXCEPT !.updating = FALSE, !.pending = @ + 1,
                          !.shown = Shown(run.num_past_states).state,
                          !.correlation = Shown(run.num_past_states).correlation]
    /\ pc' = "idle"
    /\ ret' = NoRet
    /\ lastSweep' = NoSweep /\ lastUpdate' = NoUpdate /\ lastSchedule' = NoSchedule
    /\ ObjUnchanged
    /\ UNCHANGED <<loop, sched>>

RunNext ==
    \/ Construct
    \/ RunStart
    \/ _pause_play
    \/ TimerFires
    \/ LoopStep
    \/ LoopReturn
    \/ UpdateDone

SpecRun == RunInit /\ [][RunNext]_vars

\* ======================================================================
\* The claims
\* ======================================================================

Constructed == pc \notin {"new", "failed"}

Changed(start, end) == {i \in DOMAIN start : start[i] # end[i]}

\* how many of the sets of the sequence hold i
Times(i, sets) == Cardinality({k \in 1..Len(sets) : i \in sets[k]})

OddTimes(sets, length) == {i \in Indices(length) : Times(i, sets) % 2 = 1}

\* every flip of a single spin of cfg has dE >= 0
Settled(J, length, cfg) == \A i \in Indices(length) : DeltaE(J, length, i, cfg) >= 0

Min(a, b) == IF a < b THEN a ELSE b

\* C1: a single sweep returns exactly the indices whose value at the end of the sweep
\* differs from their value at its start.
C1_SweepReturnsNetChange ==
    lastSweep.valid => lastSweep.flipped = Changed(lastSweep.start, lastSweep.end)

\* C2: update(T, n) with n >= 2 runs exactly n single sweeps and returns the indices
\* that are in an odd number of the sets those sweeps returned.
C2_UpdateReturnsXorOfSweeps ==
    (lastUpdate.valid /\ ~lastUpdate.raised /\ lastUpdate.n >= 2) =>
        /\ Len(lastUpdate.rets) = lastUpdate.n
        /\ Len(lastUpdate.end.past) = Len(lastUpdate.start.past) + lastUpdate.n
        /\ lastUpdate.flipped = OddTimes(lastUpdate.rets, _length)

\* C2 witness: update(T, 2) returned, and an index is in the sets of both sweeps
C2_Witness ==
    /\ lastUpdate.valid /\ ~lastUpdate.raised /\ lastUpdate.n = 2
    /\ lastUpdate.rets[1] \cap lastUpdate.rets[2] # {}
    /\ lastUpdate.rets[1] # lastUpdate.rets[2]

\* C3: schedule_update makes the update call of each pair of the plan, in plan order,
\* each from what the one before left, leaves what the last one left, and returns the
\* indices that are in an odd number of the sets those calls returned.
C3_ScheduleIsUpdatesInOrder ==
    (lastSchedule.valid /\ ~lastSchedule.raised) =>
        LET log == lastSchedule.log
            plan == lastSchedule.plan
        IN /\ Len(log) = Len(plan)
           /\ \A k \in 1..Len(plan) :
                 /\ log[k].T = plan[k][1]
                 /\ log[k].n = plan[k][2]
                 /\ log[k].start = IF k = 1 THEN lastSchedule.start ELSE log[k - 1].end
           /\ lastSchedule.end = IF log = <<>> THEN lastSchedule.start ELSE log[Len(log)].end
           /\ pc = "returned" => ObjView = lastSchedule.end
           /\ lastSchedule.flipped
                = OddTimes([k \in 1..Len(log) |-> log[k].flipped], _length)
           /\ pc = "returned" => ret.flipped = lastSchedule.flipped

\* C3 witness: a plan of two pairs was run, both calls changed the configuration, and
\* an index is in the sets both calls returned
C3_Witness ==
    /\ lastSchedule.valid /\ ~lastSchedule.raised
    /\ Len(lastSchedule.plan) = 2
    /\ lastSchedule.log[1].flipped \cap lastSchedule.log[2].flipped # {}
    /\ lastSchedule.log[1].flipped # lastSchedule.log[2].flipped
    /\ lastSchedule.log[1].T # lastSchedule.log[2].T

\* C4: a trial with dE < 0 is never rejected; at temperature 0 only trials with
\* dE < 0 are accepted; and update(0, n) from a configuration in which every flip has
\* dE >= 0 returns the empty set and leaves the configuration as it was.
C4_ZeroTemperature ==
    /\ lastSweep.valid =>
          /\ \A dE \in lastSweep.rej : dE >= 0
          /\ lastSweep.T = 0 => \A dE \in lastSweep.acc : dE < 0
    /\ (/\ lastUpdate.valid /\ ~lastUpdate.raised /\ lastUpdate.T = 0
        /\ Settled(_J, _length, lastUpdate.start.cfg)) =>
          /\ lastUpdate.flipped = {}
          /\ lastUpdate.end.cfg = lastUpdate.start.cfg

\* C4 witness: update(0, 2) returned on a settled chain of three spins, having
\* rejected trials with dE > 0
C4_Witness ==
    /\ lastUpdate.valid /\ ~lastUpdate.raised /\ lastUpdate.T = 0 /\ lastUpdate.n = 2
    /\ _length = 3
    /\ Settled(_J, _length, lastUpdate.start.cfg)
    /\ lastSweep.valid /\ lastSweep.ord = 2 /\ \E dE \in lastSweep.rej : dE > 0

\* a step that is a sweep: the sweep's record is the next one of the call
SweepStep == lastSweep'.ord = lastSweep.ord + 1

\* C5: the history never holds more than 1000 entries, and a sweep on a full history
\* evicts exactly the oldest entry: the others move up one place, in order, and the
\* snapshot of the configuration before the sweep is the newest.
C5_HistoryBoundedFifo ==
    /\ [](Len(_past_states) <= HistoryCap)
    /\ [][(SweepStep /\ Len(_past_states) = HistoryCap) =>
             /\ Len(_past_states') = HistoryCap
             /\ \A k \in 1..(HistoryCap - 1) :
                   /\ _past_states'[k] = _past_states[k + 1]
                   /\ heap'[_past_states'[k]] = heap[_past_states[k + 1]]
             /\ _past_states'[HistoryCap] \notin Range(_past_states)
             /\ heap'[_past_states'[HistoryCap]] = heap[_state]]_vars

\* C5 witness: a sweep has evicted an entry of a full history
C5_Witness ==
    /\ lastSweep.valid /\ lastSweep.evicted
    /\ Len(_past_states) = HistoryCap

\* C6: get_past_states(count) with count >= 1 returns the min(count, h) newest of the
\* h snapshots of the history, oldest first, then the current snapshot.
C6_RecentReturnsCountPlusCurrent ==
    (pc = "returned" /\ ret.op = "get_past_states" /\ ret.count >= 1) =>
        LET h == Len(_past_states)
            m == Min(ret.count, h)
        IN /\ Len(ret.states) = m + 1
           /\ \A k \in 1..m : heap[ret.states[k]] = heap[_past_states[h - m + k]]
           /\ heap[ret.states[m + 1]] = heap[_state]

\* C7: get_past_states(count) with count <= 0 returns no past snapshot: at most the
\* current one.
C7_NonPositiveCountReturnsCurrentOnly ==
    (pc = "returned" /\ ret.op = "get_past_states" /\ ret.count <= 0) =>
        /\ Len(ret.states) <= 1
        /\ \A k \in 1..Len(ret.states) : heap[ret.states[k]] = heap[_state]

\* C8: reset makes the configuration the one the chain had right after construction
\* and the history empty, and leaves length and J alone; the stored initial
\* configuration is never altered.
C8_ResetRestoresInitial ==
    /\ Constructed =>
          /\ heap[_initial_state]
               = CtorState(args.length, args.given, args.initial_state)
          /\ _length = args.length /\ _J = args.J
    /\ (pc = "returned" /\ ret.op = "reset") =>
          /\ heap[_state] = CtorState(args.length, args.given, args.initial_state)
          /\ _past_states = <<>>

\* C8 witness: reset was called on a chain built from a given configuration, after
\* sweeps that left another configuration and a history of MaxPast snapshots
C8_Witness ==
    /\ pc = "returned" /\ ret.op = "reset"
    /\ args.given /\ _length = 3
    /\ Len(ret.pre.past) = MaxPast
    /\ ret.pre.cfg # heap[_state]
    /\ ret.pre.past[MaxPast] # heap[_state]

\* C9: construction from a given configuration succeeds, with that configuration,
\* when every value given is +1 or -1, and fails with ValueError when one is not.
C9_ConstructionAcceptsSpins ==
    (pc # "new" /\ args.given) =>
        IF \A i \in Indices(args.length) : args.initial_state[i] \in {1, -1}
        THEN /\ pc # "failed"
             /\ heap[_initial_state] = [i \in Indices(args.length) |-> args.initial_state[i]]
        ELSE pc = "failed" /\ ret.op = "__init__" /\ ret.raised

\* C10: the configuration of a constructed chain has exactly the keys 0..length-1,
\* every value is +1 or -1, length is the constructor's; a chain built without an
\* initial configuration starts all +1.
C10_ConfigurationWellFormed ==
    /\ Constructed =>
          /\ DOMAIN heap[_state] = 0..(args.length - 1)
          /\ \A i \in DOMAIN heap[_state] : heap[_state][i] \in {1, -1}
          /\ _length = args.length
    /\ (pc = "returned" /\ ret.op = "__init__" /\ ~args.given) =>
          \A i \in 0..(args.length - 1) : heap[_state][i] = 1

\* C10 witness: two sweeps and a reset later, a further call has flipped spins of a
\* chain of three
C10_Witness ==
    /\ pc = "returned" /\ ret.op \in {"update", "schedule_update"}
    /\ _length = 3
    /\ ret.flipped # {}
    /\ \E i, j \in DOMAIN heap[_state] : heap[_state][i] = 1 /\ heap[_state][j] = -1
    /\ heap[_state] # heap[_initial_state]

\* C11: update(T, n) fails with ValueError exactly when n < 0, and the failed call
\* leaves the configuration and the history exactly as they were before it.
C11_NegativeCountRaisesUnchanged ==
    (pc = "returned" /\ ret.op = "update") =>
        /\ ret.raised <=> ret.count < 0
        /\ ret.raised =>
              /\ ret.error = "ValueError"
              /\ lastUpdate.valid /\ lastUpdate.raised /\ lastUpdate.n = ret.count
              /\ ObjView = lastUpdate.start

\* C11 witness: update with a negative count failed on a chain whose configuration is
\* no longer the initial one and whose history holds MaxPast snapshots
C11_Witness ==
    /\ pc = "returned" /\ ret.op = "update" /\ ret.raised /\ ret.count < 0
    /\ Len(_past_states) = MaxPast
    /\ heap[_state] # heap[_initial_state]

\* the places of the plan that hold a negative count
NegativeAt(plan) == {k \in 1..Len(plan) : plan[k][2] < 0}

FirstOf(S) == CHOOSE k \in S : \A j \in S : k <= j

Snapshots == [k \in 1..Len(ret.states) |-> heap[ret.states[k]]]

\* in how many snapshots spin i equals spin 0
Agree(snaps, i) == Cardinality({k \in 1..Len(snaps) : snaps[k][i] = snaps[k][0]})

\* C13: on a non-empty list of snapshots of a chain of `length` spins,
\* compute_correlations returns exactly `length` entries; entry i times the number
\* of snapshots is the sum over the snapshots of spin 0 times spin i; entry 0 is 1
\* (and [{0:1, 1:1}, {0:1, 1:-1}] gives [1, 0]); the snapshots are not modified.
C13_CorrelationsAreAverages ==
    /\ [](  (pc = "corr_done" /\ ret.states # <<>>) =>
              LET n == Len(Snapshots)
                  length == Cardinality(DOMAIN Snapshots[1])
              IN /\ ~ret.raised
                 /\ DOMAIN ret.corr = Indices(length)
                 /\ \A i \in Indices(length) :
                       /\ ret.corr[i].den > 0
                       /\ ret.corr[i].num * n
                            = ret.corr[i].den * (Agree(Snapshots, i)
                                                  - (n - Agree(Snapshots, i)))
                 /\ ret.corr[0].num = ret.corr[0].den
                 /\ Snapshots = <<(0 :> 1) @@ (1 :> 1), (0 :> 1) @@ (1 :> -1)>> =>
                       /\ ret.corr[0].num = ret.corr[0].den
                       /\ ret.corr[1].num = 0  )
    /\ [][pc = "corr" => (heap' = heap /\ ret'.states = ret.states)]_vars

\* C13 witness: compute_correlations has returned for a list of three snapshots of
\* three spins in which spin 1 agrees with spin 0 twice and spin 2 never
C13_Witness ==
    /\ pc = "corr_done" /\ Len(ret.states) = 3
    /\ DOMAIN Snapshots[1] = Indices(3)
    /\ Agree(Snapshots, 1) = 2 /\ Agree(Snapshots, 2) = 0
    /\ ret.corr[1] = [num |-> 1, den |-> 3]
    /\ ret.corr[2] = [num |-> -1, den |-> 1]

\* every dict the object holds and every dict the last call returned
Refs == <<_state, _initial_state>> \o _past_states \o ret.states

\* C15: the dicts that state and get_past_states return, the entries of the history,
\* the stored initial configuration and the live configuration are all different
\* objects; a change the caller makes to a returned dict changes neither the live
\* configuration nor a history entry nor the initial configuration; and a sweep
\* leaves the contents of the history entries it keeps as they were.
C15_SnapshotsAreIsolated ==
    /\ [](Constructed => \A j, k \in 1..Len(Refs) : j # k => Refs[j] # Refs[k])
    /\ [][(ret'.op = "modified" /\ ret.op # "modified") =>
             /\ ObjView' = ObjView
             /\ heap'[_initial_state'] = heap[_initial_state]]_vars
    /\ [][(SweepStep /\ Len(_past_states) < HistoryCap) =>
             \A k \in 1..Len(_past_states) :
                 /\ _past_states'[k] = _past_states[k]
                 /\ heap'[_past_states'[k]] = heap[_past_states[k]]]_vars

\* C15 witness: the caller has changed the first dict of the three that
\* get_past_states returned, which no longer equals the history entry it was copied from
C15_Witness ==
    /\ pc = "returned" /\ ret.op = "modified"
    /\ Len(ret.states) = 3 /\ Len(_past_states) = 2
    /\ heap[ret.states[1]] # heap[_past_states[1]]
    /\ heap[ret.states[2]] = heap[_past_states[2]]
    /\ heap[ret.states[3]] = heap[_state]

\* C16: a sweep records exactly one snapshot, of the configuration as it is before the
\* sweep's first trial; update(T, n) appends n snapshots to a history below capacity,
\* the k-th being the configuration at the start of the k-th sweep, so the newest
\* entry after the call is the configuration before the last sweep; update(T, 0)
\* changes nothing and returns the empty set.
C16_OneSnapshotPerSweep ==
    /\ [][(SweepStep /\ Len(_past_states) < HistoryCap) =>
             /\ Len(_past_states') = Len(_past_states) + 1
             /\ heap'[_past_states'[Len(_past_states')]] = heap[_state]
             /\ \A k \in 1..Len(_past_states) :
                   heap'[_past_states'[k]] = heap[_past_states[k]]]_vars
    /\ []((lastUpdate.valid /\ ~lastUpdate.raised) =>
             LET s == lastUpdate.start
                 e == lastUpdate.end
                 h == Len(s.past)
             IN /\ Len(e.past) = h + lastUpdate.n
                /\ \A k \in 1..h : e.past[k] = s.past[k]
                /\ lastUpdate.n >= 1 =>
                      /\ e.past[h + 1] = s.cfg
                      /\ e.past[h + lastUpdate.n] = lastSweep.start
                /\ \A k \in 1..lastUpdate.n :
                      Changed(e.past[h + k],
                              IF k = lastUpdate.n THEN e.cfg ELSE e.past[h + k + 1])
                        \subseteq lastUpdate.rets[k])
    /\ []((pc = "returned" /\ ret.op = "update" /\ ~ret.raised /\ ret.count = 0) =>
             /\ ret.flipped = {}
             /\ ObjView = lastUpdate.start)

\* C16 witness: update(T, 2) returned after two sweeps that both changed the
\* configuration, so the two snapshots it appended and the configuration all differ
C16_Witness ==
    /\ pc = "returned" /\ ret.op = "update" /\ ret.count = 2
    /\ Len(_past_states) = 2
    /\ heap[_past_states[1]] # heap[_past_states[2]]
    /\ heap[_past_states[2]] # heap[_state]
    /\ heap[_past_states[1]] # heap[_state]

\* the spin at place k of the open chain, 0 outside 0..length-1
Neighbour(cfg, k) == IF k \in DOMAIN cfg THEN cfg[k] ELSE 0

\* a trial not yet begun, on configuration cfg
Fresh(cfg) == [cfg |-> cfg, flipped |-> {}, acc |-> {}, rej |-> {}]

\* C17: for the configuration of the chain, every index i and every coupling J, the
\* dE of the trial flip of spin i is -2 * s_i * J * (left + right), a neighbour outside
\* the chain counting 0; a trial on index i leaves every other spin alone, flips spin
\* i when it is accepted and leaves it as it was when it is rejected.
C17_DeltaEAndTrialFrame ==
    Constructed =>
        LET cfg == heap[_state]
        IN \A i \in Indices(_length) :
              /\ \A J \in (-MaxCoupling)..MaxCoupling :
                    DeltaE(J, _length, i, cfg)
                      = (-2) * cfg[i] * J * (Neighbour(cfg, i - 1) + Neighbour(cfg, i + 1))
              /\ \A T \in Temps : \A r \in TrialStep(_J, _length, T, Fresh(cfg), i) :
                    /\ DOMAIN r.cfg = DOMAIN cfg
                    /\ \A j \in DOMAIN cfg : j # i => r.cfg[j] = cfg[j]
                    /\ r.acc # {} => (r.cfg[i] = (-1) * cfg[i] /\ r.rej = {}
                                       /\ r.flipped = {i})
                    /\ r.rej # {} => (r.cfg = cfg /\ r.acc = {} /\ r.flipped = {})
                    /\ r.acc # {} \/ r.rej # {}

\* C17 witness: a sweep at temperature above 0 on a chain of three spins has accepted
\* and rejected trials and left a configuration whose three trial flips have dE < 0,
\* dE = 0 and dE > 0
C17_Witness ==
    /\ lastSweep.valid /\ lastSweep.T > 0 /\ _length = 3
    /\ lastSweep.acc # {} /\ lastSweep.rej # {}
    /\ \E i, j, k \in Indices(_length) :
          /\ DeltaE(_J, _length, i, heap[_state]) < 0
          /\ DeltaE(_J, _length, j, heap[_state]) = 0
          /\ DeltaE(_J, _length, k, heap[_state]) > 0

\* the energy of the chain: H = J * sum over i in 0..length-2 of s_i * s_(i+1)
RECURSIVE BondSum(_, _)
BondSum(cfg, i) == IF i < 0 THEN 0 ELSE cfg[i] * cfg[i + 1] + BondSum(cfg, i - 1)

H(J, length, cfg) == J * BondSum(cfg, length - 2)

\* the configuration of the chain, once there is one
Cfg == IF Constructed THEN heap[_state] ELSE <<>>

\* C18: at temperature 0 every accepted flip has dE < 0, and the dE of a flip is the
\* change of H it makes, so every accepted flip strictly lowers H; over a sweep of
\* update(0, n) H never rises and falls when a flip was accepted; and from some point
\* on in every run of update(0, n) calls no step changes the configuration.
C18_ColdRunSettles ==
    /\ [](Constructed =>
             /\ \A i \in Indices(_length) :
                   DeltaE(_J, _length, i, heap[_state])
                     = H(_J, _length, [heap[_state] EXCEPT ![i] = @ * (-1)])
                       - H(_J, _length, heap[_state])
             /\ (lastSweep.valid /\ lastSweep.T = 0) => \A dE \in lastSweep.acc : dE < 0)
    /\ [][(SweepStep /\ lastSweep'.T = 0) =>
             /\ H(_J, _length, heap'[_state']) <= H(_J, _length, heap[_state])
             /\ lastSweep'.flipped # {} =>
                   H(_J, _length, heap'[_state']) < H(_J, _length, heap[_state])]_vars
    /\ <>[][Cfg' = Cfg]_vars

\* C18 witness: a cold run accepted a flip that lowered H, and went on until the
\* whole history, at capacity and turning over, holds the configuration it settled in
C18_Witness ==
    /\ lastSweep.valid /\ lastSweep.T = 0 /\ lastSweep.evicted
    /\ Len(_past_states) = HistoryCap
    /\ heap[_state] # heap[_initial_state]
    /\ H(_J, _length, heap[_state]) < H(_J, _length, heap[_initial_state])
    /\ \A k \in 1..Len(_past_states) : heap[_past_states[k]] = heap[_state]

\* C19: in the display loop at most one _update callback is pending at any time, and
\* the simulation is never advanced while the run is paused.
C19_OnePendingUpdateNoAdvancePaused ==
    /\ run.pending <= 1
    /\ run.updating => ~run.paused
    /\ pc \in {"loop", "sched"} => ~run.paused

\* C14: compute_correlations on the empty list fails with the error kind update
\* raises for a negative count (ValueError).
C14_EmptyListRaisesValueError ==
    (pc = "corr_done" /\ ret.states = <<>>) =>
        /\ ret.raised
        /\ ret.error = "ValueError"
====
